---- MODULE Spec2Model ----
(***************************************************************************)
(* Battery calculator: the 24-hour battery simulator                       *)
(* (utils/calculations.ts), the situation analyzer and the scenario        *)
(* generator (utils/scenarios.ts), driven by the React application         *)
(* (App.tsx, ScenarioPanel.tsx).                                           *)
(*                                                                         *)
(* Units.  All numbers of the program are reals; the model keeps them as   *)
(* exact integers in fixed units:                                          *)
(*   time of day      half hours   (the scheduler's 30-minute grid)        *)
(*   power            tenths of a kW                                       *)
(*   charge, levels   tenths of a percent                                  *)
(*   capacity         kWh                                                  *)
(* The running (unrounded) battery level of the simulation loop is kept    *)
(* as level * capacity, in tenths of a percent, which is an integer for    *)
(* every value the loop can produce.                                       *)
(***************************************************************************)
EXTENDS Integers, Sequences, FiniteSets, TLC

VARIABLES battery, appliances, powerSchedule, currentHour,
          activeScenarioId, applied,
          calculationResult, scenarios, situation, refs, yasno, pc

vars == <<battery, appliances, powerSchedule, currentHour,
          activeScenarioId, applied,
          calculationResult, scenarios, situation, refs, yasno, pc>>

-----------------------------------------------------------------------------
(* Units *)

\* half hours per hour: the granularity of schedule boundaries
SNAP == 2

\* hours of one day
HoursPerDay == 24

\* h hours, in half hours
Hr(h) == h * SNAP

\* p percent, in tenths of a percent
Pct(p) == p * 10

\* k kW, in tenths of a kW
KW(k) == k * 10

\* Math.floor of a time of day, as a whole hour number
Floor(t) == t \div SNAP

\* Math.max, Math.min
Max(a, b) == IF a >= b THEN a ELSE b

Min(a, b) == IF a <= b THEN a ELSE b

\* Math.round(x * 10) / 10 of the rational x = num / den (den > 0), in tenths:
\* Math.round rounds halves up
Round1(num, den) == (2 * num + den) \div (2 * den)

\* Infinity, as used for "no minimum yet" and "never"
Infinity == 1000000000

Range(s, e) == [start |-> s, end |-> e]

-----------------------------------------------------------------------------
(* utils/calculations.ts *)

\* mutation: the end of a same-day period is included
PeriodMatches_Closed(hour, period) ==
    IF period.start <= period.end
    THEN hour >= period.start /\ hour <= period.end
    ELSE hour >= period.start \/ hour < period.end

\* periods.some(...) / schedule.some(...): the per-range test of isPowerAvailable
PeriodMatches(hour, period) ==
    IF period.start <= period.end
    THEN hour >= period.start /\ hour < period.end
    ELSE hour >= period.start \/ hour < period.end

isPowerAvailable(hour, periods) ==
    IF Len(periods) = 0 THEN FALSE
    ELSE \E k \in 1..Len(periods) : PeriodMatches(hour, periods[k])

\* mutation: an overnight range is tested like a same-day one
RangeMatches_NoWrap(hour, range) ==
    hour >= range.start /\ hour < range.end

\* the per-range test of isApplianceActive
RangeMatches(hour, range) ==
    IF range.start <= range.end
    THEN hour >= range.start /\ hour < range.end
    ELSE hour >= range.start \/ hour < range.end

\* mutation: an appliance without a schedule is never active
isApplianceActive_EmptyNever(appliance, hour) ==
    IF Len(appliance.schedule) = 0 THEN FALSE
    ELSE \E k \in 1..Len(appliance.schedule) :
            RangeMatches(hour, appliance.schedule[k])

isApplianceActive(appliance, hour) ==
    IF Len(appliance.schedule) = 0 THEN TRUE
    ELSE \E k \in 1..Len(appliance.schedule) :
            RangeMatches(hour, appliance.schedule[k])

\* reduce((sum, a) => sum + a.power, 0)
RECURSIVE SumPower(_)
SumPower(as) ==
    IF as = <<>> THEN 0 ELSE as[1].power + SumPower(Tail(as))

\* as.map(a => a.nameUa)
NamesUa(as) == [k \in 1..Len(as) |-> as[k].nameUa]

\* mutation: the enabled flag is not looked at
ActiveAppliances_IgnoreEnabled(apps, hour) ==
    SelectSeq(apps, LAMBDA a : isApplianceActive(a, Hr(hour)))

\* the appliances the loop body of generateTimeline finds active at `hour`
ActiveAppliances(apps, hour) ==
    SelectSeq(apps, LAMBDA a : a.enabled /\ isApplianceActive(a, Hr(hour)))

\* mutation: the battery is drawn down while the grid is on
BatteryConsumption_Always(isPowerOn, applianceConsumption) == applianceConsumption

\* the battery's share of the draw: none while the grid is on
BatteryConsumption(isPowerOn, applianceConsumption) ==
    IF isPowerOn THEN 0 ELSE applianceConsumption

\* mutation: charging is not clamped at maxCharge
StepLevel_NoCeiling(b, isPowerOn, batteryConsumption, batteryLevel) ==
    IF isPowerOn
    THEN batteryLevel + b.chargingPower * 100
    ELSE Max(b.minDischarge * b.capacity, batteryLevel - batteryConsumption * 100)

\* mutation: the running level is rounded to one decimal at every step
StepLevel_Rounded(b, isPowerOn, batteryConsumption, batteryLevel) ==
    b.capacity *
        Round1(IF isPowerOn
               THEN Min(b.maxCharge * b.capacity, batteryLevel + b.chargingPower * 100)
               ELSE Max(b.minDischarge * b.capacity, batteryLevel - batteryConsumption * 100),
               b.capacity)

\* one iteration of the loop of generateTimeline: the new running level
\* (times capacity) from the old one
StepLevel(b, isPowerOn, batteryConsumption, batteryLevel) ==
    IF isPowerOn
    THEN Min(b.maxCharge * b.capacity, batteryLevel + b.chargingPower * 100)
    ELSE Max(b.minDischarge * b.capacity, batteryLevel - batteryConsumption * 100)

\* iterations i..23 of the loop of generateTimeline
RECURSIVE TimelineLoop(_, _, _, _, _, _)
TimelineLoop(b, apps, powerPeriods, startHour, i, batteryLevel) ==
    IF i >= HoursPerDay THEN <<>>
    ELSE LET hour == (startHour + i) % HoursPerDay
             isPowerOn == isPowerAvailable(Hr(hour), powerPeriods)
             activeAppliances == ActiveAppliances(apps, hour)
             applianceConsumption == SumPower(activeAppliances)
             batteryConsumption == BatteryConsumption(isPowerOn, applianceConsumption)
             level == StepLevel(b, isPowerOn, batteryConsumption, batteryLevel)
             point == [time |-> hour,
                       batteryLevel |-> Round1(level, b.capacity),
                       consumption |-> batteryConsumption,
                       charging |-> isPowerOn,
                       appliances |-> NamesUa(activeAppliances)]
         IN  <<point>> \o TimelineLoop(b, apps, powerPeriods, startHour, i + 1, level)

\* mutation: the reference hour is rounded to the nearest hour
StartHour_Round(hourNow) == (hourNow + 1) \div SNAP

\* const startHour = Math.floor(currentHour)
StartHour(hourNow) == Floor(hourNow)

generateTimeline(b, apps, powerPeriods, hourNow) ==
    TimelineLoop(b, apps, powerPeriods, StartHour(hourNow), 0, b.currentCharge * b.capacity)

\* mutation: touching the floor counts as surviving
checkSurvival_AtFloor(timeline, minDischarge) ==
    \A k \in 1..Len(timeline) : timeline[k].batteryLevel >= minDischarge

checkSurvival(timeline, minDischarge) ==
    \A k \in 1..Len(timeline) : timeline[k].batteryLevel > minDischarge

\* a rational number num / den with den > 0; Infinity is 1 / 0
Rat(n, d) == [num |-> n, den |-> d]

RatInfinity == Rat(1, 0)

\* isFinite(x)
isFinite(x) == x.den # 0

\* x < y, for rationals and Infinity
RatLess(x, y) == x.num * y.den < y.num * x.den

\* mutation: no day is added to a start that has passed
RECURSIVE HoursUntilLoop_NoWrap(_, _, _)
HoursUntilLoop_NoWrap(powerPeriods, hourNow, hoursUntilPowerOn) ==
    IF powerPeriods = <<>> THEN hoursUntilPowerOn
    ELSE LET hours == powerPeriods[1].start - hourNow
             next == IF RatLess(Rat(hours, SNAP), hoursUntilPowerOn)
                     THEN Rat(hours, SNAP) ELSE hoursUntilPowerOn
         IN  HoursUntilLoop_NoWrap(Tail(powerPeriods), hourNow, next)

\* the loop of generateRecommendations over the power periods: the least
\* (period.start - currentHour), 24 added when that is <= 0, in half hours
RECURSIVE HoursUntilLoop(_, _, _)
HoursUntilLoop(powerPeriods, hourNow, hoursUntilPowerOn) ==
    IF powerPeriods = <<>> THEN hoursUntilPowerOn
    ELSE LET raw == powerPeriods[1].start - hourNow
             hours == IF raw <= 0 THEN raw + Hr(HoursPerDay) ELSE raw
             next == IF RatLess(Rat(hours, SNAP), hoursUntilPowerOn)
                     THEN Rat(hours, SNAP) ELSE hoursUntilPowerOn
         IN  HoursUntilLoop(Tail(powerPeriods), hourNow, next)

HoursUntilPowerOn(powerPeriods, hourNow) ==
    IF isPowerAvailable(hourNow, powerPeriods) THEN Rat(0, 1)
    ELSE HoursUntilLoop(powerPeriods, hourNow, RatInfinity)

Rec(kind, names) == [kind |-> kind, names |-> names]

\* the five rules of generateRecommendations, in source order: what each
\* pushes
Rules(b, apps, hoursRemaining, canSurvive, powerPeriods, hourNow) ==
    LET enabledAppliances == SelectSeq(apps, LAMBDA a : a.enabled)
        highPowerAppliances == SelectSeq(enabledAppliances, LAMBDA a : a.power > KW(1))
        hoursUntilPowerOn == HoursUntilPowerOn(powerPeriods, hourNow)
    IN  << IF ~canSurvive THEN <<Rec("deplete", <<>>)>> ELSE <<>>,
           IF b.currentCharge < Pct(50) THEN <<Rec("lowCharge", <<>>)>> ELSE <<>>,
           IF RatLess(hoursRemaining, Rat(4, 1)) /\ RatLess(hoursRemaining, RatInfinity)
           THEN <<Rec("under4h", <<>>)>> ELSE <<>>,
           IF Len(highPowerAppliances) > 0 /\ b.currentCharge < Pct(40)
           THEN <<Rec("switchOff", NamesUa(highPowerAppliances))>> ELSE <<>>,
           IF RatLess(hoursRemaining, hoursUntilPowerOn) /\ Len(enabledAppliances) > 1
           THEN <<Rec("shedLoad", <<>>)>> ELSE <<>> >>

\* mutation: the low-charge warning is pushed before the depletion warning
Pushes_LowChargeFirst(r) == r[2] \o r[1] \o r[3] \o r[4] \o r[5]

\* recommendations.push(...) in the order of the rules
Pushes(r) == r[1] \o r[2] \o r[3] \o r[4] \o r[5]

\* mutation: an empty list is returned as it is
OrConfirmation_Never(recommendations) == recommendations

\* if (recommendations.length === 0) recommendations.push(...)
OrConfirmation(recommendations) ==
    IF Len(recommendations) = 0 THEN <<Rec("optimal", <<>>)>> ELSE recommendations

generateRecommendations(b, apps, hoursRemaining, canSurvive, powerPeriods, hourNow) ==
    OrConfirmation(Pushes(Rules(b, apps, hoursRemaining, canSurvive, powerPeriods, hourNow)))

\* mutation: an infinite value is returned as it is
Sentinel_None(x) == x

\* isFinite(x) ? x : 999
Sentinel(x) == IF isFinite(x) THEN x ELSE Rat(999, 1)

\* mutation: a battery that is already full never finishes charging
ChargeTime_NeverWhenFull(b) ==
    IF b.chargingPower > 0 /\ b.currentCharge < b.maxCharge
    THEN Rat(b.capacity * (b.maxCharge - b.currentCharge), 100 * b.chargingPower)
    ELSE RatInfinity

\* const chargeTime = chargingPower > 0 ? energyToFull / chargingPower : Infinity
ChargeTime(b) ==
    LET energyToFull == b.capacity * (b.maxCharge - b.currentCharge)
    IN  IF b.chargingPower > 0
        THEN Rat(energyToFull, 100 * b.chargingPower)
        ELSE RatInfinity

\* energies are in Wh (capacity in kWh times tenths of a percent)
calculateBatteryStatus(b, apps, schedule, hourNow) ==
    LET usablePercentage == b.maxCharge - b.minDischarge
        usableEnergy == b.capacity * usablePercentage
        currentAvailableEnergy == b.capacity * Max(0, b.currentCharge - b.minDischarge)
        isPowerOnNow == isPowerAvailable(Hr(Floor(hourNow)), schedule.periods)
        enabledAppliances == SelectSeq(apps, LAMBDA a : a.enabled)
        activeNow == SelectSeq(enabledAppliances, LAMBDA a : isApplianceActive(a, hourNow))
        applianceConsumption == SumPower(activeNow)
        currentConsumption == IF isPowerOnNow THEN 0 ELSE applianceConsumption
        hoursRemaining == IF currentConsumption > 0
                          THEN Rat(Max(0, currentAvailableEnergy), 100 * currentConsumption)
                          ELSE RatInfinity
        chargeTime == ChargeTime(b)
        timelineData == generateTimeline(b, apps, schedule.periods, hourNow)
        canSurviveOutage == checkSurvival(timelineData, b.minDischarge)
        recommendations == generateRecommendations(b, apps, hoursRemaining,
                               canSurviveOutage, schedule.periods, hourNow)
    IN  [usableEnergy |-> usableEnergy,
         currentAvailableEnergy |-> currentAvailableEnergy,
         currentConsumption |-> currentConsumption,
         hoursRemaining |-> Sentinel(hoursRemaining),
         chargeTime |-> Sentinel(chargeTime),
         timelineData |-> timelineData,
         canSurviveOutage |-> canSurviveOutage,
         recommendations |-> recommendations]

-----------------------------------------------------------------------------
(* utils/scenarios.ts *)

\* mutation: the end of a same-day period is included
isPowerOn_Closed(hour, periods) ==
    IF Len(periods) = 0 THEN FALSE
    ELSE \E k \in 1..Len(periods) :
            IF periods[k].start <= periods[k].end
            THEN hour >= periods[k].start /\ hour <= periods[k].end
            ELSE hour >= periods[k].start \/ hour < periods[k].end

isPowerOn(hour, periods) ==
    IF Len(periods) = 0 THEN FALSE
    ELSE \E k \in 1..Len(periods) :
            IF periods[k].start <= periods[k].end
            THEN hour >= periods[k].start /\ hour < periods[k].end
            ELSE hour >= periods[k].start \/ hour < periods[k].end

\* mutation: the override's schedule is not taken
OverrideOne_KeepSchedule(a, overrides) ==
    IF a.id \notin DOMAIN overrides THEN a
    ELSE LET o == overrides[a.id]
         IN  [a EXCEPT !.enabled = IF "enabled" \in DOMAIN o THEN o.enabled ELSE @]

\* mutation: the override's enabled flag is not taken
OverrideOne_KeepEnabled(a, overrides) ==
    IF a.id \notin DOMAIN overrides THEN a
    ELSE LET o == overrides[a.id]
         IN  [a EXCEPT !.schedule = IF "schedule" \in DOMAIN o THEN o.schedule ELSE @]

\* mutation: the override's schedule is appended to the base schedule
OverrideOne_AppendSchedule(a, overrides) ==
    IF a.id \notin DOMAIN overrides THEN a
    ELSE LET o == overrides[a.id]
         IN  [a EXCEPT !.enabled = IF "enabled" \in DOMAIN o THEN o.enabled ELSE @,
                       !.schedule = IF "schedule" \in DOMAIN o THEN @ \o o.schedule ELSE @]

\* An override is a record with an `enabled` field and, optionally, a
\* `schedule` field; `overrides` is a record of overrides by appliance id.
OverrideOne(a, overrides) ==
    IF a.id \notin DOMAIN overrides THEN a
    ELSE LET o == overrides[a.id]
         IN  [a EXCEPT !.enabled = IF "enabled" \in DOMAIN o THEN o.enabled ELSE @,
                       !.schedule = IF "schedule" \in DOMAIN o THEN o.schedule ELSE @]

applyOverrides(base, overrides) ==
    [k \in 1..Len(base) |-> OverrideOne(base[k], overrides)]

\* The identity of a mutable object reachable from an appliance list: the
\* list itself (part "list", at 0), its k-th appliance object (part "object")
\* or that appliance's schedule list (part "schedule"); `owner` is the list
\* that created the object, "base" or the id of a scenario.
Loc(owner, at, part) == [owner |-> owner, at |-> at, part |-> part]

\* an appliance list of n entries that shares nothing with any other
OwnRefs(owner, n) ==
    [list |-> Loc(owner, 0, "list"),
     items |-> [k \in 1..n |-> [object |-> Loc(owner, k, "object"),
                                schedule |-> Loc(owner, k, "schedule")]]]

\* applyOverrides, as to object identity: base.map builds a new list and
\* every entry is a new object; an appliance the overrides name gets a new
\* schedule list ([...o.schedule] or [...a.schedule]), any other is { ...a }
\* and keeps the schedule list of the base appliance
applyOverridesRefs(baseRefs, base, overrides, owner) ==
    [list |-> Loc(owner, 0, "list"),
     items |-> [k \in 1..Len(base) |->
                  [object |-> Loc(owner, k, "object"),
                   schedule |-> IF base[k].id \in DOMAIN overrides
                                THEN Loc(owner, k, "schedule")
                                ELSE baseRefs.items[k].schedule]]]

\* mutation: a later point with the same level replaces the minimum
RECURSIVE MinLoop_Last(_, _, _)
MinLoop_Last(timeline, minLevel, minTime) ==
    IF timeline = <<>> THEN [minLevel |-> minLevel, minTime |-> minTime]
    ELSE IF timeline[1].batteryLevel <= minLevel
         THEN MinLoop_Last(Tail(timeline), timeline[1].batteryLevel, timeline[1].time)
         ELSE MinLoop_Last(Tail(timeline), minLevel, minTime)

\* mutation: the hour of the minimum is not recorded
RECURSIVE MinLoop_NoTime(_, _, _)
MinLoop_NoTime(timeline, minLevel, minTime) ==
    IF timeline = <<>> THEN [minLevel |-> minLevel, minTime |-> minTime]
    ELSE IF timeline[1].batteryLevel < minLevel
         THEN MinLoop_NoTime(Tail(timeline), timeline[1].batteryLevel, minTime)
         ELSE MinLoop_NoTime(Tail(timeline), minLevel, minTime)

\* the loop of simulate: the first point with the least batteryLevel
RECURSIVE MinLoop(_, _, _)
MinLoop(timeline, minLevel, minTime) ==
    IF timeline = <<>> THEN [minLevel |-> minLevel, minTime |-> minTime]
    ELSE IF timeline[1].batteryLevel < minLevel
         THEN MinLoop(Tail(timeline), timeline[1].batteryLevel, timeline[1].time)
         ELSE MinLoop(Tail(timeline), minLevel, minTime)

\* mutation: the filter keeps the charging points
RECURSIVE EnergyUsed_Charging(_)
EnergyUsed_Charging(timeline) ==
    IF timeline = <<>> THEN 0
    ELSE (IF timeline[1].charging THEN timeline[1].consumption ELSE 0)
         + EnergyUsed_Charging(Tail(timeline))

\* filter(p => !p.charging).reduce((sum, p) => sum + p.consumption, 0)
RECURSIVE EnergyUsed(_)
EnergyUsed(timeline) ==
    IF timeline = <<>> THEN 0
    ELSE (IF ~timeline[1].charging THEN timeline[1].consumption ELSE 0)
         + EnergyUsed(Tail(timeline))

\* the metrics simulate extracts from the result of the simulation
Metrics(result) ==
    LET m == MinLoop(result.timelineData, Infinity, 0)
        energyUsed == EnergyUsed(result.timelineData)
    IN  [feasible |-> result.canSurviveOutage,
         minLevel |-> Round1(m.minLevel, 1),
         minTime |-> m.minTime,
         energyUsed |-> Round1(energyUsed, 1)]

simulate(b, apps, schedule, hourNow) ==
    Metrics(calculateBatteryStatus(b, apps, schedule, hourNow))

\* mutation: the scanned hour is not reduced modulo 24
RECURSIVE ScanLoop_NoWrap(_, _, _, _)
ScanLoop_NoWrap(startHour, periods, wantOn, i) ==
    IF i > HoursPerDay THEN 0
    ELSE IF isPowerOn(Hr(startHour + i), periods) = wantOn THEN i
         ELSE ScanLoop_NoWrap(startHour, periods, wantOn, i + 1)

\* mutation: a scan that finds no hour gives 24
RECURSIVE ScanLoop_Default24(_, _, _, _)
ScanLoop_Default24(startHour, periods, wantOn, i) ==
    IF i > HoursPerDay THEN HoursPerDay
    ELSE IF isPowerOn(Hr((startHour + i) % HoursPerDay), periods) = wantOn THEN i
         ELSE ScanLoop_Default24(startHour, periods, wantOn, i + 1)

\* the first i in from..24 with the grid on (wantOn) or off at startHour + i,
\* 0 when there is none
RECURSIVE ScanLoop(_, _, _, _)
ScanLoop(startHour, periods, wantOn, i) ==
    IF i > HoursPerDay THEN 0
    ELSE IF isPowerOn(Hr((startHour + i) % HoursPerDay), periods) = wantOn THEN i
         ELSE ScanLoop(startHour, periods, wantOn, i + 1)

analyzeSituation(b, schedule, hourNow) ==
    LET startHour == Floor(hourNow)
        availableEnergyKwh == b.capacity * Max(0, b.currentCharge - b.minDischarge)
        totalOutageHours ==
            Cardinality({i \in 0..(HoursPerDay - 1) :
                ~isPowerOn(Hr((startHour + i) % HoursPerDay), schedule.periods)})
        isPowerOnNow == isPowerOn(Hr(startHour), schedule.periods)
        scanOn == ScanLoop(startHour, schedule.periods, TRUE, 1)
        hoursToNextPowerOn ==
            IF ~isPowerOnNow THEN (IF scanOn = 0 THEN HoursPerDay ELSE scanOn) ELSE 0
        hoursToNextOutage ==
            IF isPowerOnNow THEN ScanLoop(startHour, schedule.periods, FALSE, 1) ELSE 0
    IN  [batteryPercent |-> b.currentCharge,
         availableEnergyKwh |-> Round1(availableEnergyKwh, 100),
         totalOutageHours |-> totalOutageHours,
         isPowerOnNow |-> isPowerOnNow,
         hoursToNextPowerOn |-> hoursToNextPowerOn,
         hoursToNextOutage |-> hoursToNextOutage]

On(sched) == [enabled |-> TRUE, schedule |-> sched]

Off == [enabled |-> FALSE]

Overrides(h, w, e, l) == [heating |-> h, water |-> w, elevator |-> e, lighting |-> l]

\* scenarios.push({...}) of the helper `add`
Pushed(id, tag, apps, sim) ==
    [id |-> id,
     tag |-> tag,
     appliances |-> apps,
     feasible |-> sim.feasible,
     minBatteryLevel |-> sim.minLevel,
     minBatteryTime |-> sim.minTime,
     energyUsedKwh |-> sim.energyUsed]

\* the helper `add` of generateScenarios: build and simulate one candidate
WithAppliances(b, apps, schedule, hourNow, id, tag) ==
    Pushed(id, tag, apps, simulate(b, apps, schedule, hourNow))

Candidate(b, base, schedule, hourNow, id, tag, overrides) ==
    WithAppliances(b, applyOverrides(base, overrides), schedule, hourNow, id, tag)

tagOrder == [comfort |-> 0, balanced |-> 1, economy |-> 2, emergency |-> 3]

\* mutation: feasibility is not a sort key
Compare_TagOnly(a, b) == tagOrder[a.tag] - tagOrder[b.tag]

\* the comparator of scenarios.sort
Compare(a, b) ==
    IF a.feasible # b.feasible THEN (IF a.feasible THEN -1 ELSE 1)
    ELSE tagOrder[a.tag] - tagOrder[b.tag]

\* mutation: an unstable sort, x goes before the elements it ties with
RECURSIVE InsertSorted_Unstable(_, _)
InsertSorted_Unstable(x, sorted) ==
    IF sorted = <<>> THEN <<x>>
    ELSE IF Compare(sorted[1], x) < 0
         THEN <<sorted[1]>> \o InsertSorted_Unstable(x, Tail(sorted))
         ELSE <<x>> \o sorted

\* Array.prototype.sort is stable: x goes after every element of the sorted
\* list that does not compare greater than it
RECURSIVE InsertSorted(_, _)
InsertSorted(x, sorted) ==
    IF sorted = <<>> THEN <<x>>
    ELSE IF Compare(sorted[1], x) <= 0
         THEN <<sorted[1]>> \o InsertSorted(x, Tail(sorted))
         ELSE <<x>> \o sorted

RECURSIVE SortLoop(_, _)
SortLoop(list, sorted) ==
    IF list = <<>> THEN sorted
    ELSE SortLoop(Tail(list), InsertSorted(list[1], sorted))

Sort(list) == SortLoop(list, <<>>)

\* one call of `add` and the condition it stands under
Add(cond, id, tag, overrides) ==
    [cond |-> cond, id |-> id, tag |-> tag, overrides |-> overrides]

\* the calls of `add` in generateScenarios, in source order, each with the
\* condition of the `if` around it
Declarations(startHour, currentCharge, totalOutageHours) ==
    LET isNight == startHour >= 23 \/ startHour < 6
        isMorning == startHour >= 6 /\ startHour < 10
        isDay == startHour >= 10 /\ startHour < 17
        isEvening == startHour >= 17 /\ startHour < 23
        batteryHigh == currentCharge >= Pct(70)
        batteryMedium == currentCharge >= Pct(40) /\ currentCharge < Pct(70)
        batteryLow == currentCharge < Pct(40)
        batteryCritical == currentCharge < Pct(20)
        R(s, e) == Range(Hr(s), Hr(e))
    IN  << Add(batteryCritical /\ totalOutageHours > 0, "critical", "emergency",
               Overrides(On(<<>>), Off, Off, Off)),
           Add(~(batteryCritical /\ totalOutageHours > 0), "heating-only", "emergency",
               Overrides(On(<<>>), Off, Off, Off)),
           Add(TRUE, "basic-needs", "economy",
               Overrides(On(<<>>), On(<<>>), Off, Off)),
           Add(totalOutageHours > 6, "water-night-off", "economy",
               Overrides(On(<<>>), On(<<R(6, 23)>>), On(<<R(7, 9), R(18, 20)>>), Off)),
           Add(isDay \/ isMorning, "workday", "economy",
               Overrides(On(<<>>), On(<<R(0, 9), R(17, 24)>>),
                         On(<<R(7, 9), R(17, 20)>>), Off)),
           Add(totalOutageHours >= 12, "long-outage", "economy",
               Overrides(On(<<>>), On(<<R(6, 9), R(17, 22)>>),
                         On(<<R(7, 9), R(18, 20)>>), Off)),
           Add(TRUE, "balanced", "balanced",
               Overrides(On(<<>>), On(<<>>), On(<<R(7, 9), R(18, 20)>>), Off)),
           Add(batteryHigh \/ batteryMedium, "extended-elevator", "balanced",
               Overrides(On(<<>>), On(<<>>), On(<<R(6, 10), R(17, 22)>>), Off)),
           Add(isMorning \/ (isNight /\ startHour >= 4), "morning-rush", "balanced",
               Overrides(On(<<>>), On(<<>>), On(<<R(6, 10)>>), On(<<R(0, 7)>>))),
           Add(isNight \/ isEvening, "night-light", "balanced",
               Overrides(On(<<>>), On(<<R(5, 24)>>), Off, On(<<R(18, 24), R(0, 7)>>))),
           Add(isEvening \/ isDay, "evening-comfort", "comfort",
               Overrides(On(<<>>), On(<<>>), On(<<R(7, 9), R(17, 22)>>),
                         On(<<R(18, 23)>>))),
           Add(TRUE, "max-comfort", "comfort",
               Overrides(On(<<>>), On(<<>>), On(<<R(6, 22)>>),
                         On(<<R(17, 24), R(0, 7)>>))),
           Add(batteryHigh /\ totalOutageHours > 0 /\ totalOutageHours <= 8,
               "full-power", "comfort",
               Overrides(On(<<>>), On(<<>>), On(<<>>), On(<<>>))),
           Add(totalOutageHours > 0 /\ totalOutageHours <= 3 /\ ~batteryLow,
               "short-outage", "comfort",
               Overrides(On(<<>>), On(<<>>), On(<<R(6, 23)>>),
                         On(<<R(17, 24), R(0, 7)>>))) >>

\* the candidates pushed by the calls of `add` that are reached
Candidates(b, base, schedule, hourNow, adds) ==
    [k \in 1..Len(adds) |->
        Candidate(b, base, schedule, hourNow, adds[k].id, adds[k].tag, adds[k].overrides)]

\* mutation: every call of `add` is reached, whatever the condition around it
Catalog_Unconditional(b, base, schedule, hourNow) ==
    Candidates(b, base, schedule, hourNow,
        Declarations(Floor(hourNow), b.currentCharge,
            analyzeSituation(b, schedule, hourNow).totalOutageHours))

\* the candidates of generateScenarios, in the order they are appended
Catalog(b, base, schedule, hourNow) ==
    Candidates(b, base, schedule, hourNow,
        SelectSeq(Declarations(Floor(hourNow), b.currentCharge,
                      analyzeSituation(b, schedule, hourNow).totalOutageHours),
                  LAMBDA d : d.cond))

generateScenarios(b, base, schedule, hourNow) ==
    Sort(Catalog(b, base, schedule, hourNow))

\* the appliance lists of the scenarios generateScenarios returns, as to
\* object identity, by scenario id
generateScenariosRefs(b, base, baseRefs, schedule, hourNow) ==
    LET adds == SelectSeq(Declarations(Floor(hourNow), b.currentCharge,
                              analyzeSituation(b, schedule, hourNow).totalOutageHours),
                          LAMBDA d : d.cond)
        at(id) == CHOOSE k \in 1..Len(adds) : adds[k].id = id
    IN  [id \in {adds[k].id : k \in 1..Len(adds)} |->
            applyOverridesRefs(baseRefs, base, adds[at(id)].overrides, id)]

-----------------------------------------------------------------------------
(* App.tsx: the defaults *)

Appliance(id, name, nameUa, power, enabled, schedule) ==
    [id |-> id, name |-> name, nameUa |-> nameUa, power |-> power,
     enabled |-> enabled, schedule |-> schedule]

defaultBatterySettings ==
    [capacity |-> 82, minDischarge |-> Pct(10), maxCharge |-> Pct(95),
     currentCharge |-> 0, chargingPower |-> KW(20)]

defaultAppliances ==
    << Appliance("water", "Water Pump", "Nasos vody", KW(2), TRUE, <<>>),
       Appliance("heating", "Heating Pump", "Nasos opalennia", KW(4), TRUE, <<>>),
       Appliance("elevator", "Elevator", "Lift", KW(3), TRUE,
                 <<Range(Hr(7), Hr(9)), Range(37, 41)>>),
       Appliance("lighting", "Lighting", "Osvitlennia", 4, FALSE,
                 <<Range(Hr(18), Hr(24)), Range(Hr(0), Hr(6))>>) >>

defaultPowerSchedule == [periods |-> <<Range(Hr(6), Hr(14))>>]

\* a slot of the outage feed: start and end in minutes from midnight
Slot(s, e, type) == [start |-> s, end |-> e, type |-> type]

\* slot.start / 60, slot.end / 60: minutes as a time of day (slot boundaries
\* lie on half hours)
SlotTime(minutes) == minutes \div 30

\* mutation: the slot's period is not clipped to the part of the day it is
\* taken for
ClipLoop_Unclipped(slots, lo, hi) ==
    LET kept == SelectSeq(slots, LAMBDA slot :
                    slot.type = "NotPlanned"
                        /\ SlotTime(slot.start) < SlotTime(slot.end))
    IN  [k \in 1..Len(kept) |-> Range(SlotTime(kept[k].start), SlotTime(kept[k].end))]

\* one loop of buildScheduleFromYasno: a period for every NotPlanned slot,
\* clipped to [lo, hi), if anything of it is left
ClipLoop(slots, lo, hi) ==
    LET kept == SelectSeq(slots, LAMBDA slot :
                    slot.type = "NotPlanned"
                        /\ Max(SlotTime(slot.start), lo) < Min(SlotTime(slot.end), hi))
    IN  [k \in 1..Len(kept) |->
            Range(Max(SlotTime(kept[k].start), lo), Min(SlotTime(kept[k].end), hi))]

buildScheduleFromYasno(todaySlots, tomorrowSlots, startHour) ==
    [periods |-> ClipLoop(todaySlots, Hr(startHour), Hr(24))
                    \o ClipLoop(tomorrowSlots, 0, Hr(startHour))]

\* the feed is not connected: the schedule is the one the user edits
Manual == [mode |-> "manual", today |-> <<>>, tomorrow |-> <<>>]

\* tomorrow's slots, or today's as an estimate while tomorrow has none
TomorrowSlots(feed) == IF Len(feed.tomorrow) > 0 THEN feed.tomorrow ELSE feed.today

-----------------------------------------------------------------------------
(* The inputs the model draws from *)

\* longest list of power periods
MaxPeriods == 2

\* power periods: same-day, overnight wrap, degenerate, on a half hour, whole day
PeriodChoices ==
    << Range(Hr(6), Hr(14)), Range(Hr(17), Hr(6)), Range(Hr(9), Hr(9)),
       Range(29, Hr(23)), Range(Hr(0), Hr(24)) >>

\* the subsequences of q of at most n elements
RECURSIVE SeqsUpTo(_, _)
SeqsUpTo(q, n) ==
    IF n = 0 \/ q = <<>> THEN {<<>>}
    ELSE SeqsUpTo(Tail(q), n)
         \cup {<<q[1]>> \o r : r \in SeqsUpTo(Tail(q), n - 1)}

PowerSchedules == {[periods |-> q] : q \in SeqsUpTo(PeriodChoices, MaxPeriods)}

Batteries ==
    { [defaultBatterySettings EXCEPT !.currentCharge = Pct(50)],
      defaultBatterySettings,
      [defaultBatterySettings EXCEPT !.currentCharge = Pct(5), !.chargingPower = 5],
      [defaultBatterySettings EXCEPT !.currentCharge = Pct(100), !.chargingPower = 0],
      [defaultBatterySettings EXCEPT !.currentCharge = Pct(95)],
      [defaultBatterySettings EXCEPT !.currentCharge = Pct(50),
                                     !.minDischarge = Pct(60), !.maxCharge = Pct(40)],
      [defaultBatterySettings EXCEPT !.currentCharge = Pct(30), !.capacity = 10] }

ApplianceLists ==
    { defaultAppliances,
      [defaultAppliances EXCEPT ![2].enabled = FALSE,
                                ![3].enabled = FALSE,
                                ![4].enabled = TRUE,
                                ![4].schedule = <<Range(Hr(22), Hr(5))>>],
      defaultAppliances \o
          <<Appliance("fridge", "Fridge", "Kholodylnyk", 15, TRUE, <<Range(Hr(3), Hr(3))>>)>> }

\* reference hours, in half hours
HourChoices == {0, 9, 15, 20, 29, 36, 46}

NoResult ==
    [usableEnergy |-> 0, currentAvailableEnergy |-> 0, currentConsumption |-> 0,
     hoursRemaining |-> Rat(0, 1), chargeTime |-> Rat(0, 1), timelineData |-> <<>>,
     canSurviveOutage |-> FALSE, recommendations |-> <<>>]

NoSituation ==
    [batteryPercent |-> 0, availableEnergyKwh |-> 0, totalOutageHours |-> 0,
     isPowerOnNow |-> FALSE, hoursToNextPowerOn |-> 0, hoursToNextOutage |-> 0]

NoScenario ==
    [id |-> "null", tag |-> "null", appliances |-> <<>>, feasible |-> FALSE,
     minBatteryLevel |-> 0, minBatteryTime |-> 0, energyUsedKwh |-> 0]

-----------------------------------------------------------------------------
(* The application: state, render pass, handlers *)

TypeOK ==
    /\ pc \in {"merge", "calc", "scenarios", "situation", "idle"}
    /\ currentHour \in 0..(Hr(HoursPerDay) - 1)

Init ==
    /\ battery \in Batteries
    /\ appliances \in ApplianceLists
    /\ powerSchedule \in PowerSchedules
    /\ currentHour \in HourChoices
    /\ activeScenarioId = "null"
    /\ applied = NoScenario
    /\ calculationResult = NoResult
    /\ scenarios = <<>>
    /\ situation = NoSituation
    /\ refs = [base |-> OwnRefs("base", Len(appliances)), scenarios |-> <<>>]
    /\ yasno = Manual
    /\ pc = "calc"

\* App: calculationResult = useMemo(calculateBatteryStatus(...))
CalculateBatteryStatus ==
    /\ pc = "calc"
    /\ calculationResult' =
           calculateBatteryStatus(battery, appliances, powerSchedule, currentHour)
    /\ pc' = "scenarios"
    /\ UNCHANGED <<battery, appliances, powerSchedule, currentHour,
                   activeScenarioId, applied, scenarios, situation, refs, yasno>>

\* ScenarioPanel: scenarios = useMemo(generateScenarios(...))
GenerateScenarios ==
    /\ pc = "scenarios"
    /\ scenarios' = generateScenarios(battery, appliances, powerSchedule, currentHour)
    /\ refs' = [refs EXCEPT !.scenarios =
                    generateScenariosRefs(battery, appliances, refs.base,
                                          powerSchedule, currentHour)]
    /\ pc' = "situation"
    /\ UNCHANGED <<battery, appliances, powerSchedule, currentHour,
                   activeScenarioId, applied, calculationResult, situation, yasno>>

\* ScenarioPanel: situation = useMemo(analyzeSituation(...))
AnalyzeSituation ==
    /\ pc = "situation"
    /\ situation' = analyzeSituation(battery, powerSchedule, currentHour)
    /\ pc' = "idle"
    /\ UNCHANGED <<battery, appliances, powerSchedule, currentHour,
                   activeScenarioId, applied, calculationResult, scenarios, refs,
                   yasno>>

\* the object identities after setAppliances(scenario.appliances): the
\* scenario's list is the base list from now on (its objects are renamed to
\* owner "base", what the old base list alone held to owner "old")
Rebase(r, id) ==
    LET move(l) == IF l.owner = id THEN [l EXCEPT !.owner = "base"]
                   ELSE IF l.owner = "base" THEN [l EXCEPT !.owner = "old"]
                   ELSE l
        moved(x) == [list |-> move(x.list),
                     items |-> [k \in 1..Len(x.items) |->
                                  [object |-> move(x.items[k].object),
                                   schedule |-> move(x.items[k].schedule)]]]
    IN  [base |-> moved(r.scenarios[id]),
         scenarios |-> [i \in DOMAIN r.scenarios |-> moved(r.scenarios[i])]]

\* App.handleApplyScenario, called by ScenarioPanel with a listed scenario;
\* the state change schedules a new render pass
HandleApplyScenario(k) ==
    /\ pc = "idle"
    /\ appliances' = scenarios[k].appliances
    /\ refs' = Rebase(refs, scenarios[k].id)
    /\ activeScenarioId' = scenarios[k].id
    /\ applied' = scenarios[k]
    /\ pc' = "calc"
    /\ UNCHANGED <<battery, powerSchedule, currentHour,
                   calculationResult, scenarios, situation, yasno>>

Next ==
    \/ CalculateBatteryStatus
    \/ GenerateScenarios
    \/ AnalyzeSituation

Spec == Init /\ [][Next]_vars

\* The same application with the user applying listed scenarios, from a
\* narrower set of starting inputs
InitApply ==
    /\ Init
    /\ battery \in {b \in Batteries : b.chargingPower = KW(20) /\ b.maxCharge = Pct(95)
                                        /\ b.currentCharge \in {Pct(50), Pct(95)}}
    /\ appliances \in {l \in ApplianceLists : Len(l) > 4 \/ l[4].enabled}
    /\ powerSchedule \in {defaultPowerSchedule,
                          [periods |-> <<Range(Hr(6), Hr(14)), Range(Hr(17), Hr(6))>>]}
    /\ currentHour = Hr(10)

NextApply ==
    \/ Next
    \/ \E k \in 1..Len(scenarios) : HandleApplyScenario(k)

SpecApply == InitApply /\ [][NextApply]_vars

\* The same application from the starting inputs that tell the candidates of
\* the scenario generator apart: a late-night, a morning, a daytime and an
\* evening reference hour, and base lists with and without an appliance that
\* no scenario overrides
InitScenarios ==
    /\ Init
    /\ appliances \in {l \in ApplianceLists : Len(l) > 4 \/ l = defaultAppliances}
    /\ currentHour \in {9, 15, 29, 36}

SpecScenarios == InitScenarios /\ [][Next]_vars

\* days of the outage feed: two outages, one outage, none, all day, no data
SlotDays ==
    << <<Slot(0, 240, "Definite"), Slot(240, 750, "NotPlanned"),
         Slot(750, 1020, "Definite"), Slot(1020, 1440, "NotPlanned")>>,
       <<Slot(0, 360, "NotPlanned"), Slot(360, 600, "Definite"),
         Slot(600, 1440, "NotPlanned")>>,
       <<Slot(0, 1440, "NotPlanned")>>,
       <<Slot(0, 1440, "Definite")>>,
       <<>> >>

\* App: effectivePowerSchedule = useMemo(buildScheduleFromYasno(...))
EffectivePowerSchedule ==
    /\ pc = "merge"
    /\ yasno.mode = "yasno"
    /\ powerSchedule' = buildScheduleFromYasno(yasno.today, TomorrowSlots(yasno),
                                                Floor(currentHour))
    /\ pc' = "calc"
    /\ UNCHANGED <<battery, appliances, currentHour, activeScenarioId, applied,
                   calculationResult, scenarios, situation, refs, yasno>>

\* The same application with the outage feed connected
InitYasno ==
    /\ battery \in {[defaultBatterySettings EXCEPT !.currentCharge = Pct(50)],
                     [defaultBatterySettings EXCEPT !.currentCharge = Pct(95)]}
    /\ appliances = defaultAppliances
    /\ powerSchedule = defaultPowerSchedule
    /\ currentHour \in HourChoices
    /\ activeScenarioId = "null"
    /\ applied = NoScenario
    /\ calculationResult = NoResult
    /\ scenarios = <<>>
    /\ situation = NoSituation
    /\ refs = [base |-> OwnRefs("base", Len(appliances)), scenarios |-> <<>>]
    /\ yasno \in {[mode |-> "yasno", today |-> SlotDays[t], tomorrow |-> SlotDays[m]] :
                      t \in 1..4, m \in 1..5}
    /\ pc = "merge"

NextYasno ==
    \/ EffectivePowerSchedule
    \/ Next

SpecYasno == InitYasno /\ [][NextYasno]_vars

-----------------------------------------------------------------------------
(* Vocabulary of the properties *)

\* the calculation result belongs to the current inputs
Calculated == pc # "calc"

\* the scenario list belongs to the current inputs
Generated == pc \in {"situation", "idle"}

timelineData == calculationResult.timelineData

\* every half-hour instant of the day
Instants == 0..(Hr(HoursPerDay) - 1)

\* the instants a time range denotes: [start, end) if start <= end, else
\* [start, 24) with [0, end)
RangeInstants(r) ==
    IF r.start <= r.end
    THEN {t \in Instants : r.start <= t /\ t < r.end}
    ELSE {t \in Instants : r.start <= t} \cup {t \in Instants : t < r.end}

\* the OR over the ranges of a list
InSomeRange(t, ranges) == \E k \in 1..Len(ranges) : t \in RangeInstants(ranges[k])

SeqRange(q) == {q[k] : k \in 1..Len(q)}

RECURSIVE SumOver(_, _)
SumOver(S, f) ==
    IF S = {} THEN 0
    ELSE LET x == CHOOSE y \in S : TRUE IN f[x] + SumOver(S \ {x}, f)

\* the summed power of the enabled appliances whose schedule (an empty one
\* meaning always) covers the instant t
DrawAt(apps, t) ==
    SumOver({k \in 1..Len(apps) :
                /\ apps[k].enabled
                /\ apps[k].schedule = <<>> \/ InSomeRange(t, apps[k].schedule)},
            [k \in 1..Len(apps) |-> apps[k].power])

\* the instants the ranges of a list cover together
Covered(ranges) == UNION {RangeInstants(ranges[k]) : k \in 1..Len(ranges)}

\* every range list of the current inputs
RangeLists ==
    {powerSchedule.periods} \cup {appliances[k].schedule : k \in 1..Len(appliances)}

-----------------------------------------------------------------------------
(* Properties *)

C2_SurvivalIffAboveFloor ==
    Calculated =>
        (calculationResult.canSurviveOutage
            <=> \A k \in 1..Len(timelineData) :
                    timelineData[k].batteryLevel > battery.minDischarge)

\* a timeline that touches the floor without going below it
C2_Witness ==
    /\ Calculated
    /\ ~calculationResult.canSurviveOutage
    /\ \E k \in 1..Len(timelineData) :
            timelineData[k].batteryLevel = battery.minDischarge
    /\ \A k \in 1..Len(timelineData) :
            timelineData[k].batteryLevel >= battery.minDischarge

\* C3: at every timeline point charging equals grid availability at the
\* point's hour; a charging point has consumption 0 whatever is active, a
\* point that is not charging has the summed power of the enabled appliances
\* active at that hour.
C3_GridPrecedence ==
    Calculated =>
        \A k \in 1..Len(timelineData) :
            LET p == timelineData[k]
                t == Hr(p.time)
            IN  /\ p.charging <=> InSomeRange(t, powerSchedule.periods)
                /\ p.charging => p.consumption = 0
                /\ ~p.charging => p.consumption = DrawAt(appliances, t)

\* a charging point with active appliances and a discharging point with a draw
C3_Witness ==
    /\ Calculated
    /\ \E k \in 1..Len(timelineData) :
            /\ timelineData[k].charging
            /\ timelineData[k].appliances # <<>>
            /\ DrawAt(appliances, Hr(timelineData[k].time)) > 0
    /\ \E k \in 1..Len(timelineData) :
            /\ ~timelineData[k].charging
            /\ timelineData[k].consumption > 0

\* C4: point inclusion over a list of ranges is the OR over the ranges, a
\* range with start <= end matching exactly [start, end) and one with
\* start > end exactly [start, 24) with [0, end); {22, 6} matches 23 and 5
\* but not 12.  isPowerAvailable, isApplianceActive (non-empty schedule) and
\* isPowerOn agree on every instant and range list.
C4_RangeInclusion ==
    /\ \A L \in RangeLists :
         LET covered == Covered(L)
         IN  \A t \in Instants :
                /\ isPowerAvailable(t, L) <=> t \in covered
                /\ isPowerOn(t, L) <=> t \in covered
                /\ L # <<>> => (isApplianceActive([schedule |-> L], t) <=> t \in covered)
    /\ LET night == <<Range(Hr(22), Hr(6))>>
       IN  /\ isPowerAvailable(Hr(23), night) /\ isPowerAvailable(Hr(5), night)
           /\ ~isPowerAvailable(Hr(12), night)
           /\ isPowerOn(Hr(23), night) /\ isPowerOn(Hr(5), night)
           /\ ~isPowerOn(Hr(12), night)
           /\ isApplianceActive([schedule |-> night], Hr(23))
           /\ isApplianceActive([schedule |-> night], Hr(5))
           /\ ~isApplianceActive([schedule |-> night], Hr(12))

\* the grid follows an overnight period and an appliance an overnight range:
\* the timeline charges late in the evening and early in the morning, not between
C4_Witness ==
    /\ Calculated
    /\ \E n \in 1..Len(powerSchedule.periods) :
         LET r == powerSchedule.periods[n]
         IN  /\ r.start > r.end
             /\ \E k \in 1..Len(timelineData) :
                    timelineData[k].charging /\ Hr(timelineData[k].time) >= r.start
             /\ \E k \in 1..Len(timelineData) :
                    timelineData[k].charging /\ Hr(timelineData[k].time) < r.end
    /\ \E k \in 1..Len(timelineData) : ~timelineData[k].charging
    /\ \E j \in 1..Len(appliances) :
         /\ appliances[j].enabled
         /\ \E n \in 1..Len(appliances[j].schedule) :
                appliances[j].schedule[n].start > appliances[j].schedule[n].end
         /\ \E k \in 1..Len(timelineData) :
                appliances[j].nameUa \in SeqRange(timelineData[k].appliances)
         /\ \E k \in 1..Len(timelineData) :
                appliances[j].nameUa \notin SeqRange(timelineData[k].appliances)

Degenerate(r) == r.start = r.end

\* C5: grid availability is false at every hour when the period list is
\* empty; a range with start = end matches no hour, so a schedule of
\* degenerate periods only means the grid is never available.
C5_EmptyAndDegenerate ==
    /\ (\A n \in 1..Len(powerSchedule.periods) : Degenerate(powerSchedule.periods[n]))
         => /\ \A t \in Instants :
                  /\ ~isPowerAvailable(t, powerSchedule.periods)
                  /\ ~isPowerOn(t, powerSchedule.periods)
            /\ Calculated =>
                  \A k \in 1..Len(timelineData) : ~timelineData[k].charging
    /\ \A L \in RangeLists : \A n \in 1..Len(L) :
         Degenerate(L[n]) =>
            \A t \in Instants :
                ~isPowerAvailable(t, <<L[n]>>) /\ ~isPowerOn(t, <<L[n]>>)

\* a simulated day under a non-empty schedule of degenerate periods only
C5_Witness ==
    /\ Calculated
    /\ Len(powerSchedule.periods) > 0
    /\ \A n \in 1..Len(powerSchedule.periods) : Degenerate(powerSchedule.periods[n])
    /\ Len(timelineData) = HoursPerDay
    /\ \E k \in 1..Len(timelineData) :
            timelineData[k].time = powerSchedule.periods[1].start \div SNAP

\* C6: an enabled appliance with an empty schedule is active at every one
\* of the 24 simulated hours; a disabled appliance, whatever its schedule,
\* is listed at no point and contributes to no point's consumption.
C6_AlwaysOnAndDisabled ==
    Calculated =>
        /\ Len(timelineData) = HoursPerDay
        /\ \A k \in 1..Len(timelineData) :
            LET p == timelineData[k]
                listed == {j \in 1..Len(appliances) :
                              appliances[j].nameUa \in SeqRange(p.appliances)}
            IN  /\ \A j \in 1..Len(appliances) :
                      /\ (appliances[j].enabled /\ appliances[j].schedule = <<>>)
                            => j \in listed
                      /\ ~appliances[j].enabled => j \notin listed
                /\ p.consumption =
                      IF p.charging THEN 0
                      ELSE SumOver(listed, [j \in 1..Len(appliances) |-> appliances[j].power])

\* an always-on appliance, a disabled appliance with an empty schedule and a
\* disabled one whose schedule covers a simulated off-grid hour
C6_Witness ==
    /\ Calculated
    /\ \E j \in 1..Len(appliances) :
            appliances[j].enabled /\ appliances[j].schedule = <<>>
    /\ \E j \in 1..Len(appliances) :
            ~appliances[j].enabled /\ appliances[j].schedule = <<>>
    /\ \E j \in 1..Len(appliances) :
            /\ ~appliances[j].enabled
            /\ \E k \in 1..Len(timelineData) :
                 /\ ~timelineData[k].charging
                 /\ InSomeRange(Hr(timelineData[k].time), appliances[j].schedule)

\* the whole hour a time of day lies in
HourOf(t) == CHOOSE h \in 0..(HoursPerDay - 1) : Hr(h) <= t /\ t < Hr(h + 1)

\* C7: timelineData has exactly 24 points and the i-th (i = 0..23) has
\* time = (floor(referenceHour) + i) mod 24: 24 distinct hours of 0..23 in
\* consecutive order, wrapping past midnight, also for a fractional hour.
C7_TwentyFourConsecutiveHours ==
    Calculated =>
        /\ Len(timelineData) = 24
        /\ \A i \in 0..23 :
              timelineData[i + 1].time = (HourOf(currentHour) + i) % 24
        /\ \A i, j \in 1..Len(timelineData) :
              i # j => timelineData[i].time # timelineData[j].time
        /\ \A i \in 1..Len(timelineData) : timelineData[i].time \in 0..23

\* a fractional reference hour whose window wraps past midnight
C7_Witness ==
    /\ Calculated
    /\ currentHour % SNAP # 0
    /\ timelineData[1].time = HourOf(currentHour)
    /\ \E i \in 1..(Len(timelineData) - 1) :
            timelineData[i].time = 23 /\ timelineData[i + 1].time = 0

\* the tiers, earliest first
TierOrder == <<"comfort", "balanced", "economy", "emergency">>

TierOf(tag) == CHOOSE n \in 1..Len(TierOrder) : TierOrder[n] = tag

\* C8: in the list generateScenarios returns no infeasible scenario precedes
\* a feasible one, and among scenarios of equal feasibility no scenario of a
\* later tier precedes one of an earlier tier (comfort, balanced, economy,
\* emergency).
C8_FeasibleFirstThenTier ==
    Generated =>
        \A i, j \in 1..Len(scenarios) :
            i < j =>
                /\ ~(~scenarios[i].feasible /\ scenarios[j].feasible)
                /\ scenarios[i].feasible = scenarios[j].feasible
                     => TierOf(scenarios[i].tag) <= TierOf(scenarios[j].tag)

\* a list with feasible and infeasible scenarios, each class spanning tiers
C8_Witness ==
    /\ Generated
    /\ \E i, j \in 1..Len(scenarios) :
            /\ scenarios[i].feasible /\ scenarios[j].feasible
            /\ scenarios[i].tag # scenarios[j].tag
    /\ \E i, j \in 1..Len(scenarios) :
            /\ ~scenarios[i].feasible /\ ~scenarios[j].feasible
            /\ scenarios[i].tag # scenarios[j].tag

\* the ids of the catalog in the order generateScenarios declares them
CatalogIds ==
    << "critical", "heating-only", "basic-needs", "water-night-off", "workday",
       "long-outage", "balanced", "extended-elevator", "morning-rush",
       "night-light", "evening-comfort", "max-comfort", "full-power",
       "short-outage" >>

Declared(id) == CHOOSE n \in 1..Len(CatalogIds) : CatalogIds[n] = id

\* C9: scenarios that tie on both sort keys (same feasibility, same tag)
\* appear in the order in which the catalog declares and appends them.
C9_TiesInCatalogOrder ==
    Generated =>
        \A i, j \in 1..Len(scenarios) :
            (/\ i < j
             /\ scenarios[i].feasible = scenarios[j].feasible
             /\ scenarios[i].tag = scenarios[j].tag)
            => Declared(scenarios[i].id) < Declared(scenarios[j].id)

Ties(tag) ==
    {T \in SUBSET (1..Len(scenarios)) :
        /\ \A i \in T : scenarios[i].tag = tag
        /\ \A i, j \in T : scenarios[i].feasible = scenarios[j].feasible}

\* three economy scenarios tie and three comfort scenarios tie
C9_Witness ==
    /\ Generated
    /\ \E T \in Ties("economy") : Cardinality(T) >= 3
    /\ \E T \in Ties("comfort") : Cardinality(T) >= 3

\* the levels of a timeline, their minimum and the first point that has it
Levels(timeline) == {timeline[k].batteryLevel : k \in 1..Len(timeline)}

LeastLevel(timeline) ==
    CHOOSE m \in Levels(timeline) : \A l \in Levels(timeline) : m <= l

FirstAtLeast(timeline) ==
    CHOOSE k \in 1..Len(timeline) :
        /\ timeline[k].batteryLevel = LeastLevel(timeline)
        /\ \A j \in 1..(k - 1) : timeline[j].batteryLevel # LeastLevel(timeline)

\* C10: running the simulator on the appliances of a returned scenario S,
\* with the same battery, schedule and hour, yields canSurviveOutage =
\* S.feasible, a timeline minimum = S.minBatteryLevel and the hour of that
\* minimum = S.minBatteryTime.
C10_ScenarioReproduced ==
    (Calculated /\ applied # NoScenario) =>
        /\ appliances = applied.appliances
        /\ calculationResult.canSurviveOutage = applied.feasible
        /\ LeastLevel(timelineData) = applied.minBatteryLevel
        /\ timelineData[FirstAtLeast(timelineData)].time = applied.minBatteryTime

\* an applied infeasible scenario whose timeline stays at its minimum for
\* several hours, the first of them not the first point
C10_Witness ==
    /\ Calculated
    /\ applied # NoScenario
    /\ ~applied.feasible
    /\ FirstAtLeast(timelineData) > 1
    /\ \E k \in (FirstAtLeast(timelineData) + 1)..Len(timelineData) :
            timelineData[k].batteryLevel = LeastLevel(timelineData)

\* the mutable objects reachable from an appliance list
Locs(r) ==
    {r.list} \cup {r.items[k].object : k \in 1..Len(r.items)}
             \cup {r.items[k].schedule : k \in 1..Len(r.items)}

\* no scenario's appliance list shares an object with the base list or with
\* another scenario's list
NoSharing ==
    \A i \in DOMAIN refs.scenarios :
        /\ Locs(refs.scenarios[i]) \cap Locs(refs.base) = {}
        /\ \A j \in DOMAIN refs.scenarios \ {i} :
              Locs(refs.scenarios[i]) \cap Locs(refs.scenarios[j]) = {}

\* C12: generateScenarios leaves baseAppliances unchanged, and afterwards no
\* scenario's appliance list shares a list or an appliance object with the
\* base list or with another scenario, also for base appliances whose id no
\* override names.
C12_ScenariosShareNothing ==
    [][pc = "scenarios" =>
          /\ appliances' = appliances
          /\ refs'.base = refs.base
          /\ NoSharing']_vars

\* x = y, for finite rationals
RatEq(x, y) == x.num * y.den = y.num * x.den

\* C13: hoursRemaining and chargeTime are never infinite: hoursRemaining is
\* the sentinel 999 when currentConsumption is 0 and otherwise
\* currentAvailableEnergy / currentConsumption, never negative; chargeTime is
\* 999 when chargingPower is 0 and otherwise
\* capacity * (maxCharge - currentCharge) / 100 / chargingPower.
C13_FiniteWithSentinel ==
    Calculated =>
        LET r == calculationResult
        IN  /\ r.hoursRemaining.den > 0
            /\ r.chargeTime.den > 0
            /\ r.hoursRemaining.num >= 0
            /\ IF r.currentConsumption = 0
               THEN RatEq(r.hoursRemaining, Rat(999, 1))
               ELSE RatEq(r.hoursRemaining,
                          Rat(r.currentAvailableEnergy, 100 * r.currentConsumption))
            /\ IF battery.chargingPower = 0
               THEN RatEq(r.chargeTime, Rat(999, 1))
               ELSE RatEq(r.chargeTime,
                          Rat(battery.capacity * (battery.maxCharge - battery.currentCharge),
                              100 * battery.chargingPower))

\* no draw and no charger: both values are the sentinel
C13_Witness ==
    /\ Calculated
    /\ calculationResult.currentConsumption = 0
    /\ battery.chargingPower = 0
    /\ calculationResult.hoursRemaining = Rat(999, 1)
    /\ calculationResult.chargeTime = Rat(999, 1)

\* C14 (as stated): chargeTime is the sentinel 999 when the charger power is
\* zero and also when the battery is already full (currentCharge >= maxCharge).
C14_SentinelWhenFull ==
    (/\ Calculated
     /\ battery.chargingPower = 0 \/ battery.currentCharge >= battery.maxCharge)
    => RatEq(calculationResult.chargeTime, Rat(999, 1))

\* C14 (amended): chargeTime is the sentinel 999 when the charger power is
\* zero; with a positive charger power and a full battery it is
\* capacity * (maxCharge - currentCharge) / 100 / chargingPower, which is 0 at
\* currentCharge = maxCharge and negative above it.
C14_ZeroOrNegativeWhenFull ==
    Calculated =>
        LET ct == calculationResult.chargeTime
        IN  /\ battery.chargingPower = 0 => RatEq(ct, Rat(999, 1))
            /\ (battery.chargingPower > 0 /\ battery.currentCharge >= battery.maxCharge)
                 => /\ ct.den > 0
                    /\ RatEq(ct, Rat(battery.capacity
                                        * (battery.maxCharge - battery.currentCharge),
                                     100 * battery.chargingPower))
                    /\ ct.num <= 0
                    /\ (ct.num = 0 <=> battery.currentCharge = battery.maxCharge)

\* a charger with power and a battery above its ceiling: a negative time
C14_Witness ==
    /\ Calculated
    /\ battery.chargingPower > 0
    /\ battery.currentCharge > battery.maxCharge
    /\ calculationResult.chargeTime.num < 0

\* C15: for any reference hour, fractional ones included, currentConsumption
\* is 0 when the grid is available at the reference hour itself, and
\* otherwise the summed power of the enabled appliances whose schedule
\* matches the reference hour itself.
C15_ConsumptionAtReferenceHour ==
    Calculated =>
        calculationResult.currentConsumption =
            IF InSomeRange(currentHour, powerSchedule.periods) THEN 0
            ELSE DrawAt(appliances, currentHour)

\* the kinds of the recommendations returned, in order
Kinds ==
    [k \in 1..Len(calculationResult.recommendations) |->
        calculationResult.recommendations[k].kind]

\* the rule that emits each kind of recommendation
RuleOf == [deplete |-> 1, lowCharge |-> 2, under4h |-> 3, switchOff |-> 4,
           shedLoad |-> 5, optimal |-> 6]

EnabledCount == Cardinality({k \in 1..Len(appliances) : appliances[k].enabled})

\* the conditions of rules 1 to 4, on the inputs and the returned metrics
DepleteDue == ~calculationResult.canSurviveOutage

LowChargeDue == battery.currentCharge < Pct(50)

Under4hDue ==
    /\ calculationResult.currentConsumption > 0
    /\ calculationResult.hoursRemaining.num >= 0
    /\ RatLess(calculationResult.hoursRemaining, Rat(4, 1))

SwitchOffDue ==
    /\ \E k \in 1..Len(appliances) : appliances[k].enabled /\ appliances[k].power > KW(1)
    /\ battery.currentCharge < Pct(40)

\* C16: the rules are evaluated in a fixed order and append independently:
\* (1) depletion iff canSurviveOutage is false, (2) low charge iff
\* currentCharge < 50, (3) under 4 hours iff hoursRemaining is finite and
\* 0 <= hoursRemaining < 4, (4) switch-off iff some enabled appliance has
\* power > 1 kW and currentCharge < 40, then (5) shed load; any subset can
\* co-occur and the output order is always 1, 2, 3, 4, 5.
C16_RulesInFixedOrder ==
    Calculated =>
        /\ "deplete" \in SeqRange(Kinds) <=> DepleteDue
        /\ "lowCharge" \in SeqRange(Kinds) <=> LowChargeDue
        /\ "under4h" \in SeqRange(Kinds) <=> Under4hDue
        /\ "switchOff" \in SeqRange(Kinds) <=> SwitchOffDue
        /\ \A i, j \in 1..Len(Kinds) : i < j => RuleOf[Kinds[i]] < RuleOf[Kinds[j]]

\* all five rules fire together
C16_Witness ==
    /\ Calculated
    /\ Kinds = <<"deplete", "lowCharge", "under4h", "switchOff", "shedLoad">>

\* hoursRemaining as generateRecommendations receives it: infinite when
\* nothing is drawn
HoursRemainingDrawn ==
    IF calculationResult.currentConsumption > 0
    THEN calculationResult.hoursRemaining ELSE RatInfinity

\* (start - referenceHour), a day added when that is <= 0, in half hours
WaitFor(start) ==
    IF start - currentHour <= 0 THEN start - currentHour + Hr(24)
    ELSE start - currentHour

Waits == {WaitFor(powerSchedule.periods[k].start) : k \in 1..Len(powerSchedule.periods)}

\* 0 when the grid is on at the reference hour, else the least wait
UntilPowerOn ==
    IF InSomeRange(currentHour, powerSchedule.periods) THEN Rat(0, 1)
    ELSE IF Waits = {} THEN RatInfinity
    ELSE Rat(CHOOSE w \in Waits : \A v \in Waits : w <= v, SNAP)

ShedLoadDue == EnabledCount > 1 /\ RatLess(HoursRemainingDrawn, UntilPowerOn)

\* C17: the shed-load warning is emitted iff more than one appliance is
\* enabled and hoursRemaining < hoursUntilPowerOn, which is 0 when the grid
\* is on at the reference hour and otherwise the minimum over the periods of
\* (period.start - referenceHour), 24 added when that is <= 0; it is never
\* emitted while the grid is on at the reference hour, and with non-empty
\* periods hoursUntilPowerOn lies in (0, 24] when the grid is off.
C17_ShedLoad ==
    Calculated =>
        /\ "shedLoad" \in SeqRange(Kinds) <=> ShedLoadDue
        /\ InSomeRange(currentHour, powerSchedule.periods)
              => "shedLoad" \notin SeqRange(Kinds)
        /\ (powerSchedule.periods # <<>>
                /\ ~InSomeRange(currentHour, powerSchedule.periods))
              => /\ RatLess(Rat(0, 1), UntilPowerOn)
                 /\ ~RatLess(Rat(24, 1), UntilPowerOn)

\* the warning is emitted while the grid is off and every period's start
\* has passed today, so that a day is added to each
C17_Witness ==
    /\ Calculated
    /\ "shedLoad" \in SeqRange(Kinds)
    /\ powerSchedule.periods # <<>>
    /\ \A k \in 1..Len(powerSchedule.periods) :
            powerSchedule.periods[k].start <= currentHour

\* C18: the recommendations list is never empty, and the "operating
\* optimally" confirmation appears iff none of rules 1-5 fired, in which case
\* it is the only element.
C18_ConfirmationIffNoWarning ==
    Calculated =>
        /\ Len(Kinds) > 0
        /\ "optimal" \in SeqRange(Kinds)
              <=> ~(DepleteDue \/ LowChargeDue \/ Under4hDue \/ SwitchOffDue \/ ShedLoadDue)
        /\ "optimal" \in SeqRange(Kinds) => Kinds = <<"optimal">>

\* no rule fires: the confirmation alone
C18_Witness ==
    /\ Calculated
    /\ Kinds = <<"optimal">>
    /\ EnabledCount > 1

\* the situation summary belongs to the current inputs
Analyzed == pc = "idle"

\* the grid is on at the i-th hour of the window that starts at
\* floor(referenceHour)
OnAt(i) == InSomeRange(Hr((HourOf(currentHour) + i) % 24), powerSchedule.periods)

Least(S) == CHOOSE m \in S : \A n \in S : m <= n

\* C19: totalOutageHours is the number of hours (floor(referenceHour) + i)
\* mod 24, i = 0..23, at which the grid is not available; hoursToNextPowerOn
\* is 0 iff the grid is on at floor(referenceHour), otherwise the smallest
\* i >= 1 with the grid on at (floor(referenceHour) + i) mod 24, or 24 if
\* there is none; it is never greater than 24.
C19_OutageHoursAndNextPowerOn ==
    Analyzed =>
        LET on == {i \in 1..24 : OnAt(i)}
        IN  /\ situation.totalOutageHours = Cardinality({i \in 0..23 : ~OnAt(i)})
            /\ situation.totalOutageHours \in 0..24
            /\ situation.hoursToNextPowerOn = 0 <=> OnAt(0)
            /\ ~OnAt(0) => situation.hoursToNextPowerOn =
                               IF on = {} THEN 24 ELSE Least(on)
            /\ situation.hoursToNextPowerOn <= 24

\* the grid is off at a fractional reference hour and comes back after midnight
C19_Witness ==
    /\ Analyzed
    /\ ~OnAt(0)
    /\ currentHour % SNAP # 0
    /\ situation.hoursToNextPowerOn < 24
    /\ HourOf(currentHour) + situation.hoursToNextPowerOn >= 24
    /\ situation.totalOutageHours \in 1..23

\* C20 (as stated): hoursToNextOutage is 0 whenever isPowerOnNow is false;
\* when isPowerOnNow is true it is the smallest i in 1..24 with the grid off
\* at (floor(referenceHour) + i) mod 24, and 24 when no off hour exists.
C20_NextOutageDefault24 ==
    Analyzed =>
        LET off == {i \in 1..24 : ~OnAt(i)}
        IN  /\ ~situation.isPowerOnNow => situation.hoursToNextOutage = 0
            /\ situation.isPowerOnNow => situation.hoursToNextOutage =
                                             IF off = {} THEN 24 ELSE Least(off)

\* C20 (amended): hoursToNextOutage is 0 whenever isPowerOnNow is false; when
\* isPowerOnNow is true it is the smallest i in 1..24 with the grid off at
\* (floor(referenceHour) + i) mod 24, and 0 when no off hour exists.
C20_NextOutageOrZero ==
    Analyzed =>
        LET off == {i \in 1..24 : ~OnAt(i)}
        IN  /\ situation.isPowerOnNow <=> OnAt(0)
            /\ ~situation.isPowerOnNow => situation.hoursToNextOutage = 0
            /\ situation.isPowerOnNow => situation.hoursToNextOutage =
                                             IF off = {} THEN 0 ELSE Least(off)

\* the grid is on during the whole window
C20_Witness ==
    /\ Analyzed
    /\ situation.isPowerOnNow
    /\ \A i \in 0..24 : OnAt(i)
    /\ situation.hoursToNextOutage = 0
    /\ situation.totalOutageHours = 0

\* the ids of the scenarios returned
Ids == {scenarios[k].id : k \in 1..Len(scenarios)}

\* the hours of the window at which the grid is off
OutageHours == Cardinality({i \in 0..23 : ~OnAt(i)})

\* C21: the output contains exactly one emergency baseline ('critical' when
\* currentCharge < 20 and totalOutageHours > 0, otherwise 'heating-only') and
\* always 'max-comfort'; 'water-night-off' is present iff totalOutageHours > 6
\* and 'full-power' iff currentCharge >= 70 and 0 < totalOutageHours <= 8.
C21_InclusionPredicates ==
    Generated =>
        LET critical == battery.currentCharge < Pct(20) /\ OutageHours > 0
        IN  /\ "critical" \in Ids <=> critical
            /\ "heating-only" \in Ids <=> ~critical
            /\ Cardinality({k \in 1..Len(scenarios) :
                               scenarios[k].tag = "emergency"}) = 1
            /\ Cardinality({k \in 1..Len(scenarios) :
                               scenarios[k].id = "max-comfort"}) = 1
            /\ "water-night-off" \in Ids <=> OutageHours > 6
            /\ "full-power" \in Ids
                  <=> (battery.currentCharge >= Pct(70)
                         /\ 0 < OutageHours /\ OutageHours <= 8)

\* a high battery and a short outage: 'heating-only' and 'full-power' without
\* 'water-night-off'
C21_Witness ==
    /\ Generated
    /\ {"heating-only", "full-power", "max-comfort"} \subseteq Ids
    /\ "water-night-off" \notin Ids
    /\ "critical" \notin Ids

\* generateScenarios has just returned
JustGenerated == pc = "situation"

\* the 24 simulated points of the k-th returned scenario
ScenarioTimeline(k) ==
    generateTimeline(battery, scenarios[k].appliances, powerSchedule.periods, currentHour)

\* C22: for every returned scenario minBatteryLevel is the minimum
\* batteryLevel over the 24 simulated points of that candidate,
\* minBatteryTime is the hour of the first point at which that minimum
\* occurs, and feasible is true exactly when the timeline never reaches the
\* discharge floor, i.e. iff minBatteryLevel > battery.minDischarge.
C22_MinimumAndFeasibility ==
    JustGenerated =>
        \A k \in 1..Len(scenarios) : \A t \in {ScenarioTimeline(k)} :
            \A least \in {LeastLevel(t)} :
                /\ Len(t) = 24
                /\ scenarios[k].minBatteryLevel = least
                /\ \E n \in 1..Len(t) :
                      /\ t[n].batteryLevel = least
                      /\ \A m \in 1..(n - 1) : t[m].batteryLevel # least
                      /\ scenarios[k].minBatteryTime = t[n].time
                /\ scenarios[k].feasible
                      <=> \A n \in 1..Len(t) : t[n].batteryLevel > battery.minDischarge
                /\ scenarios[k].feasible
                      <=> scenarios[k].minBatteryLevel > battery.minDischarge

\* a feasible scenario next to one that lies on the floor for several hours,
\* the first of them not the first hour of the window
C22_Witness ==
    /\ JustGenerated
    /\ \E k \in 1..Len(scenarios) : scenarios[k].feasible
    /\ \E k \in 1..Len(scenarios) :
         /\ ~scenarios[k].feasible
         /\ scenarios[k].minBatteryLevel = battery.minDischarge
         /\ scenarios[k].minBatteryTime # HourOf(currentHour)
         /\ Cardinality({n \in 1..24 :
                ScenarioTimeline(k)[n].batteryLevel = battery.minDischarge}) > 1

\* the power the enabled appliances of the k-th scenario draw at the i-th
\* hour of the window
ScenarioDraw(k, i) ==
    DrawAt(scenarios[k].appliances, Hr((HourOf(currentHour) + i) % 24))

RECURSIVE SumTo(_, _)
SumTo(f, n) == IF n < 0 THEN 0 ELSE f[n] + SumTo(f, n - 1)

\* C23: for every returned scenario energyUsedKwh is the sum of consumption
\* over the candidate's timeline points with charging = false, which equals
\* the sum of the candidate's active appliance powers over exactly the hours
\* counted in totalOutageHours; it is 0 when the grid is available at all 24
\* hours.
C23_EnergyUsed ==
    JustGenerated =>
        \A on \in {{i \in 0..23 : OnAt(i)}} :
            \A k \in 1..Len(scenarios) : \A t \in {ScenarioTimeline(k)} :
                /\ scenarios[k].energyUsedKwh =
                      SumTo([n \in 0..23 |-> IF t[n + 1].charging THEN 0
                                             ELSE t[n + 1].consumption], 23)
                /\ scenarios[k].energyUsedKwh =
                      SumTo([i \in 0..23 |-> IF i \in on THEN 0 ELSE ScenarioDraw(k, i)], 23)
                /\ on = 0..23 => scenarios[k].energyUsedKwh = 0

\* an outage of some hours: scenarios that use different amounts of energy
C23_Witness ==
    /\ JustGenerated
    /\ OutageHours \in 1..23
    /\ \E j, k \in 1..Len(scenarios) :
         /\ scenarios[j].energyUsedKwh > scenarios[k].energyUsedKwh
         /\ scenarios[k].energyUsedKwh > 0

\* the overrides the catalog declares for the scenario `id`
OverridesOf(id) ==
    LET all == Declarations(0, 0, 0)
    IN  all[CHOOSE n \in 1..Len(all) : all[n].id = id].overrides

\* C24: in every Scenario.appliances list the appliances appear in the same
\* order and with the same id, power and names as in the base list; an
\* appliance whose id the override names takes the override's enabled flag
\* and, if given, the override's schedule (otherwise its base schedule); an
\* appliance whose id is not named keeps its base enabled flag and schedule.
C24_OverridesApplied ==
    Generated =>
        \A k \in 1..Len(scenarios) :
            LET list == scenarios[k].appliances
                over == OverridesOf(scenarios[k].id)
            IN  /\ Len(list) = Len(appliances)
                /\ \A j \in 1..Len(appliances) :
                      LET a == appliances[j]
                      IN  /\ list[j].id = a.id
                          /\ list[j].power = a.power
                          /\ list[j].name = a.name
                          /\ list[j].nameUa = a.nameUa
                          /\ IF a.id \in DOMAIN over
                             THEN /\ list[j].enabled = over[a.id].enabled
                                  /\ list[j].schedule =
                                        IF "schedule" \in DOMAIN over[a.id]
                                        THEN over[a.id].schedule ELSE a.schedule
                             ELSE /\ list[j].enabled = a.enabled
                                  /\ list[j].schedule = a.schedule

\* a base list with an appliance no override names; a scenario that switches
\* an appliance off and keeps its non-empty schedule, and one that replaces
\* a non-empty schedule
C24_Witness ==
    /\ Generated
    /\ \E j \in 1..Len(appliances) :
            appliances[j].id \notin {"heating", "water", "elevator", "lighting"}
    /\ \E k \in 1..Len(scenarios) : \E j \in 1..Len(appliances) :
            /\ ~scenarios[k].appliances[j].enabled
            /\ appliances[j].enabled
            /\ scenarios[k].appliances[j].schedule = appliances[j].schedule
            /\ appliances[j].schedule # <<>>
    /\ \E k \in 1..Len(scenarios) : \E j \in 1..Len(appliances) :
            /\ appliances[j].schedule # <<>>
            /\ scenarios[k].appliances[j].schedule # <<>>
            /\ scenarios[k].appliances[j].schedule # appliances[j].schedule

\* the level (times capacity) after the hour of the timeline point p, from
\* the level `from` (times capacity): the hourly rate added up to the
\* ceiling while charging, subtracted down to the floor otherwise
Stepped(p, from) ==
    IF p.charging
    THEN Min(battery.maxCharge * battery.capacity, from + battery.chargingPower * 100)
    ELSE Max(battery.minDischarge * battery.capacity, from - p.consumption * 100)

\* the level before the k-th point, as the previous point shows it
Shown(k) ==
    IF k = 1 THEN battery.currentCharge ELSE timelineData[k - 1].batteryLevel

\* the unrounded level (times capacity) after the k-th point
RECURSIVE Unrounded(_)
Unrounded(k) ==
    IF k = 0 THEN battery.currentCharge * battery.capacity
    ELSE Stepped(timelineData[k], Unrounded(k - 1))

\* C25 (as stated): the level is rounded to one decimal at every step and
\* the rounded value is what the next step starts from: each emitted
\* batteryLevel is the clamp applied to (previous emitted batteryLevel +/-
\* the hourly rate), rounded to one decimal.
C25_RoundedLevelCarried ==
    Calculated =>
        \A k \in 1..Len(timelineData) :
            timelineData[k].batteryLevel =
                Round1(Stepped(timelineData[k], Shown(k) * battery.capacity),
                       battery.capacity)

\* C25 (amended): the level is carried unrounded from step to step and only
\* the emitted batteryLevel is rounded: each emitted batteryLevel is the
\* clamp applied to (previous unrounded level +/- the hourly rate), rounded
\* to one decimal.
C25_UnroundedLevelCarried ==
    Calculated =>
        \A k \in 1..Len(timelineData) :
            timelineData[k].batteryLevel = Round1(Unrounded(k), battery.capacity)

\* a point that differs from what the previous emitted level would give
C25_Witness ==
    /\ Calculated
    /\ \E k \in 2..Len(timelineData) :
         /\ timelineData[k].batteryLevel = Round1(Unrounded(k), battery.capacity)
         /\ timelineData[k].batteryLevel #
                Round1(Stepped(timelineData[k], Shown(k) * battery.capacity),
                       battery.capacity)

\* the worked example: battery {82 kWh, floor 10, ceiling 95, charge 50,
\* charger 20 kW}, power periods [{6, 14}], the default appliances, hour 10
Example ==
    /\ battery = [capacity |-> 82, minDischarge |-> 100, maxCharge |-> 950,
                  currentCharge |-> 500, chargingPower |-> 200]
    /\ powerSchedule = [periods |-> <<[start |-> 12, end |-> 28]>>]
    /\ appliances = defaultAppliances
    /\ currentHour = 20

\* the points of the example's timeline for the hours of a set
PointsAt(hours) == {k \in 1..Len(timelineData) : timelineData[k].time \in hours}

OffGridHours == (14..23) \cup (0..5)

\* C26 (as stated): in the example the points for hours 10..13 charge with
\* consumption 0 and the level rises by 20/82*100 per hour until clamped at
\* 95; from hour 14 the grid is off and the level falls by 6/82*100 per hour
\* from the 6 kW heating + water draw over the 16 off-grid hours; the minimum
\* is reached at an hour before hour 6 of the following day.
C26_ExampleSixKilowatts ==
    (Calculated /\ Example) =>
        /\ \A k \in PointsAt(10..13) :
              /\ timelineData[k].charging
              /\ timelineData[k].consumption = 0
              /\ timelineData[k].batteryLevel =
                    Round1(Min(950 * 82, 500 * 82 + k * 200 * 100), 82)
        /\ Cardinality(PointsAt(OffGridHours)) = 16
        /\ \A k \in PointsAt(OffGridHours) :
              /\ ~timelineData[k].charging
              /\ timelineData[k].consumption = KW(6)
              /\ timelineData[k].batteryLevel =
                    Round1(Max(100 * 82, 950 * 82 - (k - 4) * 60 * 100), 82)
        /\ timelineData[FirstAtLeast(timelineData)].time \in 0..5

\* C26 (amended): in the example the points for hours 10..13 charge with
\* consumption 0 and the level rises by 20/82*100 per hour until clamped at
\* 95 (74.4, 95, 95, 95); over the 16 off-grid hours 14..5 the draw is the
\* 6 kW of heating and water, except at hours 19 and 20, when the elevator
\* adds 3 kW: the level falls by 6/82*100 per hour, and by 9/82*100 at hours
\* 19 and 20, down to the floor 10, first reached at hour 0 and kept until
\* the grid returns at hour 6.
C26_ExampleWithElevator ==
    (Calculated /\ Example) =>
        /\ [k \in 1..24 |-> timelineData[k].time] =
              <<10, 11, 12, 13, 14, 15, 16, 17, 18, 19, 20, 21, 22, 23,
                0, 1, 2, 3, 4, 5, 6, 7, 8, 9>>
        /\ [k \in 1..24 |-> timelineData[k].charging] =
              [k \in 1..24 |-> k \in (1..4) \cup (21..24)]
        /\ [k \in 1..24 |-> timelineData[k].consumption] =
              [k \in 1..24 |-> IF k \in (1..4) \cup (21..24) THEN 0
                               ELSE IF k \in {10, 11} THEN KW(9) ELSE KW(6)]
        /\ [k \in 1..24 |-> timelineData[k].batteryLevel] =
              <<744, 950, 950, 950, 877, 804, 730, 657, 584, 474, 365, 291,
                218, 145, 100, 100, 100, 100, 100, 100, 344, 588, 832, 950>>
        /\ timelineData[FirstAtLeast(timelineData)].time = 0
        /\ ~calculationResult.canSurviveOutage

\* the example has been simulated; the elevator runs at hour 19
C26_Witness ==
    /\ Calculated
    /\ Example
    /\ timelineData[10].time = 19
    /\ "Lift" \in SeqRange(timelineData[10].appliances)

\* the schedule has been merged from the outage feed
Merged == yasno.mode = "yasno" /\ pc # "merge"

\* the time of day t lies in a NotPlanned slot of the list
InNotPlanned(t, slots) ==
    \E k \in 1..Len(slots) :
        /\ slots[k].type = "NotPlanned"
        /\ slots[k].start <= t * 30
        /\ t * 30 < slots[k].end

\* C27: buildScheduleFromYasno(today, tomorrow, startHour) returns only
\* periods with 0 <= start < end <= 24 such that, for every time of day h,
\* the grid is reported available at h iff h >= startHour and h lies in a
\* NotPlanned slot of today, or h < startHour and h lies in a NotPlanned slot
\* of tomorrow; Definite slots produce no period and a slot straddling
\* startHour is clipped at startHour.
C27_ScheduleFromSlots ==
    Merged =>
        LET startHour == Hr(HourOf(currentHour))
            periods == powerSchedule.periods
        IN  /\ \A n \in 1..Len(periods) :
                  /\ 0 <= periods[n].start
                  /\ periods[n].start < periods[n].end
                  /\ periods[n].end <= Hr(24)
                  /\ periods[n].start >= startHour \/ periods[n].end <= startHour
            /\ \A h \in Instants :
                  isPowerAvailable(h, periods)
                    <=> \/ h >= startHour /\ InNotPlanned(h, yasno.today)
                        \/ h < startHour /\ InNotPlanned(h, TomorrowSlots(yasno))

\* a NotPlanned slot of today straddles startHour and gives a period that
\* starts there, and tomorrow's slots give a period before startHour
C27_Witness ==
    /\ Merged
    /\ yasno.tomorrow # <<>>
    /\ yasno.tomorrow # yasno.today
    /\ \E k \in 1..Len(yasno.today) :
         /\ yasno.today[k].type = "NotPlanned"
         /\ yasno.today[k].start < HourOf(currentHour) * 60
         /\ HourOf(currentHour) * 60 < yasno.today[k].end
    /\ \E n \in 1..Len(powerSchedule.periods) :
            powerSchedule.periods[n].start = Hr(HourOf(currentHour))
    /\ \E n \in 1..Len(powerSchedule.periods) :
            powerSchedule.periods[n].end < Hr(HourOf(currentHour))

\* the index of the emergency baseline among the returned scenarios
Emergency == CHOOSE k \in 1..Len(scenarios) : scenarios[k].tag = "emergency"

\* C28: when all appliance powers are >= 0, the emergency baseline
\* ('critical' or 'heating-only') dominates every other scenario of the same
\* call: at every simulated hour its battery level is >= the other's, its
\* energyUsedKwh is <= the other's and its minBatteryLevel is >= the
\* other's; hence if it is infeasible every returned scenario is infeasible.
C28_EmergencyDominates ==
    (JustGenerated /\ \A j \in 1..Len(appliances) : appliances[j].power >= 0) =>
        \A e \in {Emergency} : \A te \in {ScenarioTimeline(e)} :
            /\ scenarios[e].id \in {"critical", "heating-only"}
            /\ \A k \in 1..Len(scenarios) : \A t \in {ScenarioTimeline(k)} :
                  /\ \A n \in 1..24 : te[n].batteryLevel >= t[n].batteryLevel
                  /\ scenarios[e].energyUsedKwh <= scenarios[k].energyUsedKwh
                  /\ scenarios[e].minBatteryLevel >= scenarios[k].minBatteryLevel
                  /\ ~scenarios[e].feasible => ~scenarios[k].feasible

\* the baseline survives and another scenario of the call does not: it uses
\* more energy and its level is lower at some hour
C28_Witness ==
    /\ JustGenerated
    /\ scenarios[Emergency].feasible
    /\ \E k \in 1..Len(scenarios) :
         /\ ~scenarios[k].feasible
         /\ scenarios[k].energyUsedKwh > scenarios[Emergency].energyUsedKwh
         /\ scenarios[k].minBatteryLevel < scenarios[Emergency].minBatteryLevel

\* what the ranking shows of a list of scenarios
Summary(list) ==
    [k \in 1..Len(list) |->
        [id |-> list[k].id,
         tag |-> list[k].tag,
         feasible |-> list[k].feasible,
         minBatteryLevel |-> list[k].minBatteryLevel,
         minBatteryTime |-> list[k].minBatteryTime,
         energyUsedKwh |-> list[k].energyUsedKwh]]

\* the scenarios are generated again from the appliances of the scenario
\* that was applied, which was one of the scenarios listed until now
Regenerated ==
    /\ pc = "scenarios"
    /\ pc' = "situation"
    /\ applied # NoScenario
    /\ appliances = applied.appliances
    /\ \E k \in 1..Len(scenarios) : scenarios[k] = applied

\* C29: applying a scenario is idempotent with respect to the ranking: for a
\* returned scenario S, generateScenarios(battery, S.appliances, schedule,
\* hour) returns the same sequence of ids with the same tag, feasible,
\* minBatteryLevel, minBatteryTime and energyUsedKwh as
\* generateScenarios(battery, base, schedule, hour).
C29_ApplyKeepsRanking ==
    [][Regenerated => Summary(scenarios') = Summary(scenarios)]_vars

\* the scenarios have been generated again from an applied scenario that
\* changed the enabled flag and the schedule of appliances of the base list
C29_Witness ==
    /\ JustGenerated
    /\ applied # NoScenario
    /\ appliances = applied.appliances
    /\ Len(scenarios) > 1
    /\ \E base \in ApplianceLists :
         /\ Len(base) = Len(appliances)
         /\ \E i, j \in 1..Len(base) :
               /\ base[i].enabled # appliances[i].enabled
               /\ base[j].schedule # appliances[j].schedule
               /\ appliances[j].enabled
         /\ \A i \in 1..Len(base) :
               appliances[i].id \notin {"heating", "water", "elevator", "lighting"}
                   => appliances[i] = base[i]

\* the 0-based indices of the timeline points that charge
ChargingPoints == {i \in 0..(Len(timelineData) - 1) : timelineData[i + 1].charging}

\* C30: the situation analyzer and the battery simulator agree for the same
\* power schedule and reference hour: totalOutageHours is the number of
\* timeline points with charging = false, isPowerOnNow is the charging flag
\* of the first timeline point, and when isPowerOnNow is false
\* hoursToNextPowerOn is the 0-based index of the first timeline point with
\* charging = true, or 24 if there is none.
C30_AnalyzerAgreesWithSimulator ==
    Analyzed =>
        /\ Len(timelineData) = 24
        /\ situation.totalOutageHours = 24 - Cardinality(ChargingPoints)
        /\ situation.isPowerOnNow = timelineData[1].charging
        /\ ~situation.isPowerOnNow =>
              situation.hoursToNextPowerOn =
                  IF ChargingPoints = {} THEN 24 ELSE Least(ChargingPoints)

\* the grid is off at the reference hour and comes back within the window,
\* after more than one hour
C30_Witness ==
    /\ Analyzed
    /\ ~situation.isPowerOnNow
    /\ ~timelineData[1].charging
    /\ situation.hoursToNextPowerOn \in 2..23
    /\ situation.totalOutageHours \in 2..23

====
